---- MODULE Spec2Model ----
(***************************************************************************)
(* The Dashboard reconciler of operator/controllers/dashboard_controller.go*)
(* as a state machine.  The controller's worker takes one queued request at *)
(* a time and runs Reconcile for it; every store read/write and every      *)
(* remote HTTP call is one step, so user updates and process crashes       *)
(* interleave between them.                                                *)
(***************************************************************************)
EXTENDS Naturals, FiniteSets

\* ---------------------------------------------------------------- bounds
\* Faults the environment may inject in one behaviour (store errors, failed
\* or garbled remote calls, process kills).
MaxFaults == 1
\* User edits of spec.config in one behaviour.
MaxEdits == 1

\* Resource identities (req.NamespacedName) and spec.config payloads; a
\* payload is named by the title it asks for.
Ids == {"a", "b"}
Configs == {"X", "Y"}
InitialConfig == "X"

\* Worker goroutines of the controller: SetupWithManager sets no options, so
\* controller-runtime runs one Reconcile at a time, whatever the identity.
MaxConcurrentReconciles == 1

\* The empty DashboardId (Go's "" for Status.DashboardId); remote ids are 1, 2, ...
NoId == 0
\* The empty DashboardTitle.
NoTitle == ""

VARIABLES
    store,      \* store[i]: the persisted Dashboard object of identity i
    born,       \* born[i]: the user has created identity i (once)
    trigger,    \* trigger[i]: a reconcile request for i is queued
    pc,         \* pc[i]: position of the Reconcile invocation for i
    dashboard,  \* dashboard[i]: Reconcile's local variable `dashboard`
    artifacts,  \* remote dashboards that exist: records [id, owner]
    nextId,     \* number of ids the remote service has handed out
    createCalls,\* createCalls[i]: POSTs for i that the remote service answered
    last,       \* last[i]: what the current/last invocation for i did
    faults,     \* faults injected so far
    edits,      \* user edits so far
    strayKill   \* the process was killed while an invocation was anywhere
                \* but between its status write and its metadata write

vars == <<store, born, trigger, pc, dashboard, artifacts, nextId, createCalls,
          last, faults, edits, strayKill>>

\* ---------------------------------------------------------------- data
\* A Dashboard object: Status.DashboardId/DashboardTitle, the finalizer,
\* DeletionTimestamp, ResourceVersion and Spec.Config.
Absent ==
    [exists |-> FALSE, remoteId |-> NoId, title |-> NoTitle, fin |-> FALSE,
     del |-> FALSE, rv |-> 0, config |-> ""]

NewResource(c) ==
    [exists |-> TRUE, remoteId |-> NoId, title |-> NoTitle, fin |-> FALSE,
     del |-> FALSE, rv |-> 1, config |-> c]

\* What one invocation did: the branch taken, the DashboardId it loaded, the
\* remote answer, the id and title the remote create sent back, the id the
\* remote delete was called with, remote calls issued, store writes issued and
\* accepted, whether a write was rejected as stale, and the value returned.
Fresh ==
    [branch |-> "none", seenId |-> NoId, remote |-> "none", newId |-> NoId,
     newTitle |-> NoTitle, sentId |-> NoId, calls |-> 0, writes |-> 0,
     stored |-> 0, conflict |-> FALSE, result |-> "none"]

\* InstanaApiResponse and json.Unmarshal into its zero value.
Zero == [Id |-> NoId, Title |-> NoTitle]

Unmarshal_DropsTitle(body) ==
    IF body.kind = "dashboard" THEN [Id |-> body.id, Title |-> NoTitle]
    ELSE Zero

Unmarshal_DefaultsId(body) ==
    IF body.kind = "dashboard" THEN [Id |-> body.id, Title |-> body.title]
    ELSE [Id |-> 1, Title |-> NoTitle]

Unmarshal(body) ==
    IF body.kind = "dashboard" THEN [Id |-> body.id, Title |-> body.title]
    ELSE Zero

\* client.IgnoreNotFound on the error of r.Get.
IgnoreNotFound_Forgotten(err) == IF err = "nil" THEN "ok" ELSE "err"

IgnoreNotFound(err) == IF err \in {"nil", "notfound"} THEN "ok" ELSE "err"

\* ---------------------------------------------------------------- store
\* r.Status().Update: optimistic concurrency on ResourceVersion; writes the
\* status subresource only; an unchanged object is not rewritten.
StatusUpdate(cur, obj) ==
    IF ~cur.exists THEN [code |-> "notfound", obj |-> cur]
    ELSE IF obj.rv # cur.rv THEN [code |-> "conflict", obj |-> cur]
    ELSE LET new == [cur EXCEPT !.remoteId = obj.remoteId, !.title = obj.title]
         IN [code |-> "ok",
             obj |-> IF new = cur THEN cur ELSE [new EXCEPT !.rv = cur.rv + 1]]

\* r.Update: optimistic concurrency on ResourceVersion; writes metadata and
\* spec; an object under deletion whose last finalizer goes is removed.
Update(cur, obj) ==
    IF ~cur.exists THEN [code |-> "notfound", obj |-> cur]
    ELSE IF obj.rv # cur.rv THEN [code |-> "conflict", obj |-> cur]
    ELSE LET new == [cur EXCEPT !.fin = obj.fin, !.config = obj.config]
         IN [code |-> "ok",
             obj |-> IF new.del /\ ~new.fin THEN Absent
                     ELSE IF new = cur THEN cur
                     ELSE [new EXCEPT !.rv = cur.rv + 1]]

\* A store write that does not get through (timeout, server error).
Unserved(cur) == [code |-> "error", obj |-> cur]

\* controllerutil.AddFinalizer / RemoveFinalizer on the local object.
AddFinalizer(obj) == [obj EXCEPT !.fin = TRUE]

RemoveFinalizer_Kept(obj) == obj

RemoveFinalizer(obj) == [obj EXCEPT !.fin = FALSE]

\* ---------------------------------------------------------------- init
Init ==
    /\ store = [i \in Ids |-> Absent]
    /\ born = [i \in Ids |-> FALSE]
    /\ trigger = [i \in Ids |-> FALSE]
    /\ pc = [i \in Ids |-> "idle"]
    /\ dashboard = [i \in Ids |-> Absent]
    /\ artifacts = {}
    /\ nextId = 0
    /\ createCalls = [i \in Ids |-> 0]
    /\ last = [i \in Ids |-> Fresh]
    /\ faults = 0
    /\ edits = 0
    /\ strayKill = FALSE

\* ---------------------------------------------------------------- users, store
\* A user creates the resource: Pending, and the watch queues a reconcile.
UserCreate(i) ==
    /\ ~born[i]
    /\ born' = [born EXCEPT ![i] = TRUE]
    /\ store' = [store EXCEPT ![i] = NewResource(InitialConfig)]
    /\ trigger' = [trigger EXCEPT ![i] = TRUE]
    /\ UNCHANGED <<pc, dashboard, artifacts, nextId, createCalls, last, faults,
                   edits, strayKill>>

\* A user changes spec.config: a new ResourceVersion and a reconcile request.
UserEdit(i, c) ==
    /\ store[i].exists /\ ~store[i].del
    /\ c # store[i].config
    /\ edits < MaxEdits
    /\ edits' = edits + 1
    /\ store' = [store EXCEPT ![i] = [@ EXCEPT !.config = c, !.rv = @ + 1]]
    /\ trigger' = [trigger EXCEPT ![i] = TRUE]
    /\ UNCHANGED <<born, pc, dashboard, artifacts, nextId, createCalls, last,
                   faults, strayKill>>

\* A user requests deletion: with a finalizer the store only marks the object
\* (DeletionTimestamp); without one it removes the object at once.
UserDelete(i) ==
    /\ store[i].exists /\ ~store[i].del
    /\ store' = [store EXCEPT ![i] =
                    IF @.fin THEN [@ EXCEPT !.del = TRUE, !.rv = @ + 1] ELSE Absent]
    /\ trigger' = [trigger EXCEPT ![i] = TRUE]
    /\ UNCHANGED <<born, pc, dashboard, artifacts, nextId, createCalls, last,
                   faults, edits, strayKill>>

\* The informer's periodic resync queues a reconcile for an existing object.
Resync(i) ==
    /\ store[i].exists /\ ~trigger[i]
    /\ trigger' = [trigger EXCEPT ![i] = TRUE]
    /\ UNCHANGED <<store, born, pc, dashboard, artifacts, nextId, createCalls,
                   last, faults, edits, strayKill>>

\* The process dies and restarts: every invocation in flight is lost with its
\* local variables, the in-memory queue is rebuilt from the objects that exist.
Restart ==
    /\ pc' = [i \in Ids |-> "idle"]
    /\ dashboard' = [i \in Ids |-> Absent]
    /\ trigger' = [i \in Ids |-> store[i].exists]

\* The process is killed from outside.
Crash ==
    /\ faults < MaxFaults
    /\ faults' = faults + 1
    /\ Restart
    /\ last' = [i \in Ids |-> IF pc[i] = "idle" THEN last[i]
                              ELSE [last[i] EXCEPT !.result = "killed"]]
    /\ strayKill' = (strayKill \/ \E i \in Ids : pc[i] \notin {"idle", "update"})
    /\ UNCHANGED <<store, born, artifacts, nextId, createCalls, edits>>

\* ---------------------------------------------------------------- remote service
\* The body the remote service sends back for a POST: the created dashboard,
\* an error document (non-2xx), or bytes that do not parse.
CreateReply(out, id, cfg) ==
    IF out = "ok" THEN [kind |-> "dashboard", id |-> id, title |-> cfg]
    ELSE IF out = "apiError" THEN [kind |-> "error"]
    ELSE [kind |-> "garbage"]

\* Whether the POST created a dashboard on the remote side.
Creates(out) == out = "ok"

\* The answers a DELETE for `id` can get.
DeleteAnswers(id) ==
    IF \E a \in artifacts : a.id = id THEN {"ok", "apiError"}
    ELSE {"notfound", "apiError"}

\* ---------------------------------------------------------------- Reconcile
\* The fixed-priority dispatch of Reconcile on the object r.Get loaded.
Branch_NoSkip(obj) ==
    IF obj.del THEN "delete" ELSE "create"

Branch_IdFirst(obj) ==
    IF obj.remoteId # NoId THEN "skip"
    ELSE IF obj.del THEN "delete"
    ELSE "create"

Branch(obj) ==
    IF obj.del THEN "delete"
    ELSE IF obj.remoteId # NoId THEN "skip"
    ELSE "create"

\* The error of r.Get: nil, not-found, or another error when the read fails.
GetErr(cur, got) ==
    IF got = "error" THEN "other"
    ELSE IF cur.exists THEN "nil"
    ELSE "notfound"

\* An unrecovered panic in one worker goroutine ends the process: every
\* invocation in flight is lost, `i` is the one that panicked.
Panic(i) ==
    /\ Restart
    /\ last' = [j \in Ids |->
                  IF j = i THEN [last[j] EXCEPT !.result = "panic", !.calls = @ + 1,
                                                !.remote = "transport"]
                  ELSE IF pc[j] = "idle" THEN last[j]
                  ELSE [last[j] EXCEPT !.result = "killed"]]

\* r.Get and the dispatch: Reconcile returns at once when the read fails, the
\* object is missing or it is already provisioned, and moves on to the remote
\* call otherwise.
Load(i) ==
    /\ pc[i] = "idle" /\ trigger[i]
    /\ Cardinality({j \in Ids : pc[j] # "idle"}) < MaxConcurrentReconciles
    /\ \E got \in {"served", "error"} :
        LET err == GetErr(store[i], got)
            b == IF err = "nil" THEN Branch(store[i])
                 ELSE IF err = "notfound" THEN "notfound" ELSE "loaderr"
            seen == [Fresh EXCEPT !.branch = b, !.seenId = store[i].remoteId]
        IN  /\ IF got = "error" THEN faults < MaxFaults /\ faults' = faults + 1
               ELSE UNCHANGED faults
            /\ IF err # "nil"
               THEN /\ last' = [last EXCEPT ![i] =
                                   [seen EXCEPT !.result = IgnoreNotFound(err)]]
                    /\ trigger' = [trigger EXCEPT ![i] = (IgnoreNotFound(err) = "err")]
                    /\ UNCHANGED <<pc, dashboard>>
               ELSE IF b = "skip"
               THEN /\ last' = [last EXCEPT ![i] = [seen EXCEPT !.result = "ok"]]
                    /\ trigger' = [trigger EXCEPT ![i] = FALSE]
                    /\ UNCHANGED <<pc, dashboard>>
               ELSE /\ last' = [last EXCEPT ![i] = seen]
                    /\ trigger' = [trigger EXCEPT ![i] = FALSE]
                    /\ pc' = [pc EXCEPT ![i] = b]
                    /\ dashboard' = [dashboard EXCEPT ![i] = store[i]]
    /\ UNCHANGED <<store, born, artifacts, nextId, createCalls, edits, strayKill>>

\* createDashboardInInstana answers and its result is copied into the status
\* of the local object, whatever the answer was.
CallCreate(i) ==
    /\ pc[i] = "create"
    /\ \E out \in {"ok", "garbled", "apiError"} :
        LET id == nextId + 1
            body == CreateReply(out, id, dashboard[i].config)
            apiResponse == Unmarshal(body)
        IN  /\ IF out = "ok" THEN UNCHANGED faults
               ELSE faults < MaxFaults /\ faults' = faults + 1
            /\ IF Creates(out)
               THEN /\ artifacts' = artifacts \cup {[id |-> id, owner |-> i]}
                    /\ nextId' = id
               ELSE UNCHANGED <<artifacts, nextId>>
            /\ dashboard' = [dashboard EXCEPT ![i] =
                                [@ EXCEPT !.remoteId = apiResponse.Id,
                                          !.title = apiResponse.Title]]
            /\ last' = [last EXCEPT ![i] =
                           [@ EXCEPT !.remote = out, !.calls = @ + 1,
                                     !.newId = IF out = "ok" THEN body.id ELSE NoId,
                                     !.newTitle = IF out = "ok" THEN body.title
                                                  ELSE NoTitle]]
    /\ createCalls' = [createCalls EXCEPT ![i] = @ + 1]
    /\ pc' = [pc EXCEPT ![i] = "statusUpdate"]
    /\ UNCHANGED <<store, born, trigger, edits, strayKill>>

\* client.Do fails: resp is nil and `defer resp.Body.Close()` panics.
CreatePanics(i) ==
    /\ pc[i] = "create"
    /\ faults < MaxFaults
    /\ faults' = faults + 1
    /\ Panic(i)
    /\ UNCHANGED <<store, born, artifacts, nextId, createCalls, edits, strayKill>>

UpdateStatus_GoesOn(i) ==
    /\ pc[i] = "statusUpdate"
    /\ \E got \in {"served", "error"} :
        LET r == IF got = "served" THEN StatusUpdate(store[i], dashboard[i])
                 ELSE Unserved(store[i])
        IN  /\ IF got = "error" THEN faults < MaxFaults /\ faults' = faults + 1
               ELSE UNCHANGED faults
            /\ store' = [store EXCEPT ![i] = r.obj]
            /\ pc' = [pc EXCEPT ![i] = "update"]
            /\ dashboard' = [dashboard EXCEPT ![i] =
                                AddFinalizer(IF r.code = "ok" THEN r.obj ELSE @)]
            /\ trigger' = [trigger EXCEPT ![i] = @ \/ r.obj # store[i]]
            /\ last' = [last EXCEPT ![i] =
                           [@ EXCEPT !.writes = @ + 1,
                                     !.stored = IF r.code = "ok" THEN @ + 1 ELSE @]]
    /\ UNCHANGED <<born, artifacts, nextId, createCalls, edits, strayKill>>

\* r.Status().Update, then AddFinalizer on the refreshed local object.
UpdateStatus(i) ==
    /\ pc[i] = "statusUpdate"
    /\ \E got \in {"served", "error"} :
        LET r == IF got = "served" THEN StatusUpdate(store[i], dashboard[i])
                 ELSE Unserved(store[i])
        IN  /\ IF got = "error" THEN faults < MaxFaults /\ faults' = faults + 1
               ELSE UNCHANGED faults
            /\ store' = [store EXCEPT ![i] = r.obj]
            /\ IF r.code = "ok"
               THEN /\ pc' = [pc EXCEPT ![i] = "update"]
                    /\ dashboard' = [dashboard EXCEPT ![i] = AddFinalizer(r.obj)]
                    /\ trigger' = [trigger EXCEPT ![i] = @ \/ r.obj # store[i]]
                    /\ last' = [last EXCEPT ![i] =
                                   [@ EXCEPT !.writes = @ + 1, !.stored = @ + 1]]
               ELSE /\ pc' = [pc EXCEPT ![i] = "idle"]
                    /\ dashboard' = [dashboard EXCEPT ![i] = Absent]
                    /\ trigger' = [trigger EXCEPT ![i] = TRUE]
                    /\ last' = [last EXCEPT ![i] =
                                   [@ EXCEPT !.writes = @ + 1, !.result = "err",
                                             !.conflict = (r.code = "conflict")]]
    /\ UNCHANGED <<born, artifacts, nextId, createCalls, edits, strayKill>>

WriteAndReturn_Retries(i) ==
    \E got \in {"served", "error"} :
        LET r == IF got = "served" THEN Update(store[i], dashboard[i])
                 ELSE Unserved(store[i])
        IN  /\ IF got = "error" THEN faults < MaxFaults /\ faults' = faults + 1
               ELSE UNCHANGED faults
            /\ store' = [store EXCEPT ![i] = r.obj]
            /\ trigger' = [trigger EXCEPT ![i] = @ \/ r.obj # store[i]]
            /\ last' = [last EXCEPT ![i] =
                           [@ EXCEPT !.writes = @ + 1,
                                     !.stored = IF r.code = "ok" THEN @ + 1 ELSE @,
                                     !.result = IF r.code = "ok" THEN "ok" ELSE @]]
            /\ pc' = [pc EXCEPT ![i] = IF r.code = "ok" THEN "idle" ELSE @]
            /\ dashboard' = [dashboard EXCEPT ![i] =
                                IF r.code = "ok" THEN Absent ELSE @]
            /\ UNCHANGED <<born, artifacts, nextId, createCalls, edits, strayKill>>

\* The r.Update that ends both branches, with the value Reconcile returns.
WriteAndReturn(i) ==
    \E got \in {"served", "error"} :
        LET r == IF got = "served" THEN Update(store[i], dashboard[i])
                 ELSE Unserved(store[i])
        IN  /\ IF got = "error" THEN faults < MaxFaults /\ faults' = faults + 1
               ELSE UNCHANGED faults
            /\ store' = [store EXCEPT ![i] = r.obj]
            /\ trigger' = [trigger EXCEPT ![i] = @ \/ r.code # "ok" \/ r.obj # store[i]]
            /\ last' = [last EXCEPT ![i] =
                           [@ EXCEPT !.writes = @ + 1,
                                     !.stored = IF r.code = "ok" THEN @ + 1 ELSE @,
                                     !.result = IF r.code = "ok" THEN "ok" ELSE "err",
                                     !.conflict = (r.code = "conflict")]]
            /\ pc' = [pc EXCEPT ![i] = "idle"]
            /\ dashboard' = [dashboard EXCEPT ![i] = Absent]
            /\ UNCHANGED <<born, artifacts, nextId, createCalls, edits, strayKill>>

\* r.Update with the finalizer added; Reconcile returns.
UpdateFinalizer(i) ==
    /\ pc[i] = "update"
    /\ WriteAndReturn(i)

\* deleteDashboardInInstana answers; its result is dropped and the finalizer
\* is removed from the local object.
CallDelete(i) ==
    /\ pc[i] = "delete"
    /\ \E out \in DeleteAnswers(dashboard[i].remoteId) :
        /\ IF out = "apiError" THEN faults < MaxFaults /\ faults' = faults + 1
           ELSE UNCHANGED faults
        /\ artifacts' = IF out = "ok"
                        THEN {a \in artifacts : a.id # dashboard[i].remoteId}
                        ELSE artifacts
        /\ last' = [last EXCEPT ![i] =
                       [@ EXCEPT !.remote = out, !.calls = @ + 1,
                                 !.sentId = dashboard[i].remoteId]]
    /\ dashboard' = [dashboard EXCEPT ![i] = RemoveFinalizer(@)]
    /\ pc' = [pc EXCEPT ![i] = "removeFinalizer"]
    /\ UNCHANGED <<store, born, trigger, nextId, createCalls, edits, strayKill>>

\* client.Do fails in deleteDashboardInInstana: the same nil dereference.
DeletePanics(i) ==
    /\ pc[i] = "delete"
    /\ faults < MaxFaults
    /\ faults' = faults + 1
    /\ Panic(i)
    /\ UNCHANGED <<store, born, artifacts, nextId, createCalls, edits, strayKill>>

\* r.Update with the finalizer removed; Reconcile returns.
UpdateRemoved(i) ==
    /\ pc[i] = "removeFinalizer"
    /\ WriteAndReturn(i)

\* The remote service accepts the connection and never answers: &http.Client{}
\* has no Timeout and the request carries no context, so client.Do does not
\* return and the invocation stays inside createDashboardInInstana or
\* deleteDashboardInInstana.
Stalls(i) ==
    /\ pc[i] \in {"create", "delete"}
    /\ faults < MaxFaults
    /\ faults' = faults + 1
    /\ pc' = [pc EXCEPT ![i] = "blocked"]
    /\ last' = [last EXCEPT ![i] = [@ EXCEPT !.remote = "silent", !.calls = @ + 1]]
    /\ UNCHANGED <<store, born, trigger, dashboard, artifacts, nextId, createCalls,
                   edits, strayKill>>

\* ---------------------------------------------------------------- specification
Reconcile(i) ==
    \/ Load(i)
    \/ CallCreate(i)
    \/ CreatePanics(i)
    \/ UpdateStatus(i)
    \/ UpdateFinalizer(i)
    \/ CallDelete(i)
    \/ DeletePanics(i)
    \/ UpdateRemoved(i)

Environment ==
    \/ \E i \in Ids : UserCreate(i)
    \/ \E i \in Ids, c \in Configs : UserEdit(i, c)
    \/ \E i \in Ids : UserDelete(i)
    \/ \E i \in Ids : Resync(i)
    \/ Crash

Next == (\E i \in Ids : Reconcile(i)) \/ Environment

Spec == Init /\ [][Next]_vars

\* The work queue is first-in first-out, so every queued request is handed to
\* the worker, and the worker runs each invocation to the end.
LiveSpec == Spec /\ \A i \in Ids : SF_vars(Reconcile(i))

\* The same program with a remote service that may also never answer.
StallNext == Next \/ \E i \in Ids : Stalls(i)

StallSpec == Init /\ [][StallNext]_vars /\ \A i \in Ids : SF_vars(Reconcile(i))

\* ---------------------------------------------------------------- claims
Pending(obj) == obj.exists /\ ~obj.del /\ obj.remoteId = NoId
Provisioned(obj) == obj.exists /\ ~obj.del /\ obj.remoteId # NoId
Deleting(obj) == obj.exists /\ obj.del

\* A step in which the worker takes the queued request of identity i and its
\* read of the store is served.
Dispatches(i) ==
    /\ \A j \in Ids : pc[j] = "idle"
    /\ trigger[i] /\ faults' = faults
    /\ (~trigger'[i] \/ last'[i] # last[i] \/ pc'[i] # pc[i])

\* C1: at-most-once provisioning.  Whatever store-write failures and remote
\* failures occur, and with process kills only between the status write and
\* the metadata write, no resource ever has more than one remote create call
\* issued for it.
AtMostOneCreate ==
    ~strayKill => \A i \in Ids : createCalls[i] <= 1

\* C2: no orphaned remote artifact.  Unless the process was killed between a
\* remote create and its status write, every remote artifact that exists is
\* the status.remoteId of its resource, which is still in the store (or is
\* the id the running invocation is about to write with its status update).
NoOrphanedArtifact ==
    ~strayKill => \A a \in artifacts :
        \/ store[a.owner].exists /\ store[a.owner].remoteId = a.id
        \/ pc[a.owner] = "statusUpdate" /\ dashboard[a.owner].remoteId = a.id

\* C3: no orphan on delete.  An invocation that runs the deletion branch on a
\* resource with a non-empty remoteId and gets a retryable failure from the
\* remote delete issues no metadata write and does not return success.
NoOrphanOnDelete ==
    \A i \in Ids :
        (/\ last[i].branch = "delete"
         /\ last[i].seenId # NoId
         /\ last[i].remote \in {"apiError", "transport"})
        => last[i].writes = 0 /\ last[i].result # "ok"

\* C4: idempotent no-op on Provisioned.  Every reconcile that loads a resource
\* with a non-empty remoteId and no deletion request returns success at once,
\* with no remote call and no store write, and leaves the store, the remote
\* side and the resource as they were.
ProvisionedNoOp ==
    [][\A i \in Ids :
        (Dispatches(i) /\ Provisioned(store[i]))
        => /\ pc'[i] = "idle"
           /\ last'[i].result = "ok"
           /\ last'[i].calls = 0 /\ last'[i].writes = 0
           /\ store' = store
           /\ artifacts' = artifacts /\ createCalls' = createCalls]_vars

ProvisionedNoOpWitness ==
    \E i \in Ids :
        /\ Provisioned(store[i]) /\ store[i].fin
        /\ pc[i] = "idle" /\ ~trigger[i]
        /\ last[i].branch = "skip" /\ last[i].result = "ok"

\* C5: not-found is a no-op success.  Every reconcile whose read finds the
\* identity absent from the store returns success, with no remote call and no
\* store write.
NotFoundNoOp ==
    [][\A i \in Ids :
        (Dispatches(i) /\ ~store[i].exists)
        => /\ pc'[i] = "idle"
           /\ last'[i].result = "ok"
           /\ last'[i].calls = 0 /\ last'[i].writes = 0
           /\ store' = store
           /\ artifacts' = artifacts /\ createCalls' = createCalls]_vars

NotFoundNoOpWitness ==
    \E i \in Ids :
        /\ born[i] /\ ~store[i].exists
        /\ pc[i] = "idle" /\ ~trigger[i]
        /\ last[i].branch = "notfound" /\ last[i].result = "ok"

\* C6: conflict triggers retry, not loss.  A store write rejected for a stale
\* resource version leaves the store as it was, makes Reconcile return an
\* error with a new reconcile queued, and loses nothing: an id the remote
\* create returned in that invocation is the persisted status.remoteId.
ConflictNoLoss ==
    [][\A i \in Ids :
        (pc[i] \in {"statusUpdate", "update", "removeFinalizer"}
         /\ ~last[i].conflict /\ last'[i].conflict)
        => /\ store' = store
           /\ last'[i].result = "err"
           /\ trigger'[i]
           /\ (last'[i].newId # NoId => store'[i].remoteId = last'[i].newId)]_vars

\* C7: status.remoteId is write-once.  No step changes a non-empty persisted
\* status.remoteId to another value or to empty; it goes only with the
\* resource.
RemoteIdWriteOnce ==
    [][\A i \in Ids :
        (store[i].exists /\ store[i].remoteId # NoId)
        => (~store'[i].exists \/ store'[i].remoteId = store[i].remoteId)]_vars

RemoteIdWriteOnceWitness ==
    \E i \in Ids :
        /\ store[i].exists /\ store[i].remoteId # NoId
        /\ last[i].seenId = store[i].remoteId
        /\ last[i].writes = 1 /\ pc[i] = "idle"

\* C8: finalizer/artifact correspondence.  Outside the window between the two
\* writes of a running create, a persisted resource has the finalizer only if
\* a create succeeded for it (it carries an id or owns a remote artifact), and
\* has it whenever its status.remoteId is non-empty.
FinalizerIffArtifact ==
    \A i \in Ids :
        (store[i].exists /\ pc[i] # "update")
        => /\ store[i].fin =>
                (store[i].remoteId # NoId \/ \E a \in artifacts : a.owner = i)
           /\ store[i].remoteId # NoId => store[i].fin

\* C9: successful create transition.  When the remote create returned
\* {id, title} and the second store write of that invocation is accepted, the
\* persisted resource carries that id, that title and the finalizer, and
\* Reconcile returns success.
CreateTransition ==
    [][\A i \in Ids :
        (last[i].branch = "create" /\ last[i].remote = "ok"
         /\ last[i].stored = 1 /\ last'[i].stored = 2)
        => /\ store'[i].exists
           /\ store'[i].remoteId = last[i].newId /\ last[i].newId # NoId
           /\ store'[i].title = last[i].newTitle /\ last[i].newTitle # NoTitle
           /\ store'[i].fin
           /\ pc'[i] = "idle" /\ last'[i].result = "ok"]_vars

CreateTransitionWitness ==
    \E i \in Ids :
        /\ last[i].branch = "create" /\ last[i].remote = "ok"
        /\ last[i].stored = 2 /\ last[i].result = "ok"
        /\ store[i].remoteId = last[i].newId /\ store[i].fin
        /\ store[i].title = "Y"

\* C10: deletion completes.  With requests handed to the workers and the
\* failures of a behaviour finite, every resource under deletion is
\* eventually removed from the store.
DeletionCompletes ==
    \A i \in Ids : Deleting(store[i]) ~> ~store[i].exists

DeletionCompletesWitness ==
    \E i \in Ids :
        /\ born[i] /\ ~store[i].exists
        /\ last[i].branch = "delete" /\ last[i].seenId # NoId
        /\ last[i].remote = "ok" /\ last[i].result = "ok"

\* C11: create failure leaves the resource Pending.  An invocation whose
\* remote create fails (no connection, an API error, or a body that cannot be
\* parsed) attempts no store write and never ends in success, so the persisted
\* resource keeps the empty remoteId and gets no finalizer from it.
CreateFailureLeavesPending ==
    \A i \in Ids :
        (/\ last[i].branch = "create"
         /\ last[i].remote \in {"apiError", "garbled", "transport"})
        => last[i].writes = 0 /\ last[i].result # "ok"

\* C12: finalizer repair on re-entry.  Once a reconcile that loaded a resource
\* with a non-empty remoteId and no deletion request has returned success,
\* that resource carries the finalizer, and no create call was made for the
\* repair.
FinalizerRepaired ==
    \A i \in Ids :
        (/\ pc[i] = "idle"
         /\ last[i].seenId # NoId /\ last[i].branch \notin {"delete", "notfound"}
         /\ last[i].result = "ok"
         /\ Provisioned(store[i]))
        => store[i].fin /\ last[i].calls = 0

\* C13: remote delete only for provisioned resources.  An invocation in the
\* deletion branch calls the remote delete exactly when the loaded
\* status.remoteId is non-empty; with an empty remoteId it clears the
\* finalizer without any remote call.
DeleteOnlyProvisioned ==
    \A i \in Ids :
        last[i].branch = "delete"
        => /\ last[i].seenId = NoId => last[i].calls = 0
           /\ (last[i].seenId # NoId /\ pc[i] \in {"removeFinalizer", "idle"}
               /\ last[i].result # "killed")
              => last[i].calls = 1

\* C14: branch dispatch priority.  What a reconcile does is fixed by the state
\* it loads, in this order: absent, deletion requested, remoteId non-empty,
\* otherwise create.  An invocation that loaded a resource under deletion makes
\* no create call and never changes the persisted status.
DispatchPriority ==
    [][\A i \in Ids :
        /\ Dispatches(i) =>
              /\ ~store[i].exists => pc'[i] = "idle" /\ last'[i].result = "ok"
              /\ Deleting(store[i]) => pc'[i] = "delete"
              /\ Provisioned(store[i]) => pc'[i] = "idle" /\ last'[i].result = "ok"
              /\ Pending(store[i]) => pc'[i] = "create"
        /\ (pc[i] # "idle" /\ dashboard[i].del) =>
              /\ createCalls'[i] = createCalls[i]
              /\ store'[i].exists =>
                    /\ store'[i].remoteId = store[i].remoteId
                    /\ store'[i].title = store[i].title]_vars

DispatchPriorityWitness ==
    \E i \in Ids :
        /\ born[i] /\ ~store[i].exists
        /\ last[i].branch = "delete" /\ last[i].seenId = NoId
        /\ last[i].writes = 1 /\ last[i].result = "ok"
        /\ createCalls[i] = 1

\* C15: create-branch write ordering.  In the create branch the status write
\* comes first; the metadata write is attempted only after the store accepted
\* the status write; when the status write fails, the invocation attempts no
\* metadata write and returns the error.
StatusBeforeMetadata ==
    \A i \in Ids :
        last[i].branch = "create"
        => /\ pc[i] = "update" => last[i].writes = 1 /\ last[i].stored = 1
           /\ last[i].writes = 2 => last[i].stored >= 1
           /\ (last[i].writes >= 1 /\ last[i].stored = 0)
              => /\ last[i].writes = 1
                 /\ pc[i] = "idle" /\ last[i].result = "err"

StatusBeforeMetadataWitness ==
    \E i \in Ids :
        /\ last[i].branch = "create" /\ last[i].remote = "ok"
        /\ last[i].writes = 1 /\ last[i].stored = 0
        /\ pc[i] = "idle" /\ last[i].result = "err"
        /\ store[i].exists /\ ~store[i].fin

\* C16: failure isolation.  A remote call that fails at the transport, or a
\* store write that fails, ends as an error returned by that one invocation:
\* the process is never brought down by it.
FailureIsolation ==
    \A i \in Ids :
        (last[i].remote = "transport" \/ last[i].writes > last[i].stored)
        => pc[i] = "idle" /\ last[i].result = "err"

\* C17: bounded worker occupancy.  Every invocation of Reconcile eventually
\* returns, also when the remote service never answers a call.
InvocationReturns ==
    \A i \in Ids : (pc[i] # "idle") ~> (pc[i] = "idle")

\* C18: no retry inside the reconciler.  One invocation issues at most one
\* remote call and at most one write of each kind (status, metadata; the
\* deletion branch has the metadata write only), and after a store write that
\* failed it issues nothing more and returns the error.
NoRetryInside ==
    \A i \in Ids :
        /\ last[i].calls <= 1
        /\ last[i].writes <= (IF last[i].branch = "create" THEN 2
                              ELSE IF last[i].branch = "delete" THEN 1 ELSE 0)
        /\ last[i].writes <= last[i].stored + 1
        /\ last[i].writes > last[i].stored
           => pc[i] = "idle" /\ last[i].result = "err"

NoRetryInsideWitness ==
    \E i \in Ids :
        /\ last[i].branch = "create" /\ last[i].calls = 1
        /\ last[i].writes = 2 /\ last[i].stored = 1
        /\ pc[i] = "idle" /\ last[i].result = "err"

\* C19: provisioning eventually happens.  With requests handed to the worker
\* and the failures of a behaviour finite, a Pending resource whose deletion
\* is not requested eventually is Provisioned: it carries a non-empty remoteId
\* and the finalizer.
ProvisioningHappens ==
    \A i \in Ids :
        Pending(store[i])
        ~> \/ Provisioned(store[i]) /\ store[i].fin
           \/ ~store[i].exists \/ store[i].del

\* C20: remote-id provenance.  A non-empty status.remoteId gets into the store
\* only as the id that a remote create, called by a reconcile of that same
\* resource, sent back; and every remote delete call carries the remoteId
\* persisted on the resource it is called for, so it removes no other
\* resource's artifact.
RemoteIdProvenance ==
    [][\A i \in Ids :
        /\ (/\ store'[i].exists /\ store'[i].remoteId # NoId
            /\ store'[i].remoteId # store[i].remoteId)
           => /\ last[i].branch = "create" /\ last[i].remote = "ok"
              /\ store'[i].remoteId = last[i].newId
              /\ \A j \in Ids \ {i} :
                    ~(store[j].exists /\ store[j].remoteId = last[i].newId)
        /\ (pc[i] = "delete" /\ pc'[i] = "removeFinalizer")
           => /\ last'[i].sentId = store[i].remoteId
              /\ \A a \in artifacts \ artifacts' :
                    a.id = store[i].remoteId /\ a.owner = i]_vars

RemoteIdProvenanceWitness ==
    \E i \in Ids, j \in Ids :
        /\ i # j
        /\ last[i].branch = "delete" /\ last[i].remote = "ok"
        /\ last[i].sentId # NoId /\ last[i].result = "ok"
        /\ Provisioned(store[j]) /\ store[j].remoteId = last[j].newId
        /\ last[j].stored = 2

====
